---------------------------- MODULE Spec2Model ----------------------------
(***************************************************************************)
(* Model of server.js: an Express service that stores events in db.json,   *)
(* enriches them with weather from OpenWeatherMap through a process-wide   *)
(* cache, scores them, and suggests alternative dates.                     *)
(*                                                                         *)
(* JavaScript values are encoded as follows.  A nullable value is a        *)
(* sequence: <<>> is null/undefined, <<v>> is the value v.  Strings are    *)
(* TLA+ strings; includes/toLowerCase/split are computed on them.  A       *)
(* request handler is split at its awaits on the provider: everything      *)
(* between two awaits is one atomic step of the single-threaded event      *)
(* loop.                                                                   *)
(***************************************************************************)
EXTENDS Integers, Sequences, FiniteSets, TLC

VARIABLES
    db,            \* contents of db.json: the sequence db.events
    weatherCache,  \* the Map weatherCache: key -> raw provider payload
    req,           \* per client slot: the handler's position and locals
    resp,          \* the response the latest step sent, if it sent one
    tz,            \* the time zone the process runs in
    nreq,          \* number of requests received so far
    first,         \* history: key -> payload of its first successful fetch
    probe          \* a direct call of the scorer: its input and its result

vars == <<db, weatherCache, req, resp, tz, nreq, first, probe>>

-----------------------------------------------------------------------------
(* Bounds of the model *)

MaxInFlight == 2      \* client slots: requests that can overlap in time
MaxRequests == 3      \* requests received in one run
MaxBeforeAlternatives == 1  \* of which before an alternatives request

-----------------------------------------------------------------------------
(* JavaScript values *)

Null == <<>>
Some(v) == <<v>>
IsNull(o) == o = <<>>
Val(o) == o[1]

\* String.prototype.includes
Includes(s, p) ==
    \E i \in 1..(Len(s) - Len(p) + 1) : SubSeq(s, i, i + Len(p) - 1) = p

LowerChar(c) ==
    CASE c = "A" -> "a" [] c = "C" -> "c" [] c = "D" -> "d" [] c = "E" -> "e"
      [] c = "I" -> "i" [] c = "L" -> "l" [] c = "N" -> "n" [] c = "O" -> "o"
      [] c = "R" -> "r" [] c = "S" -> "s" [] c = "U" -> "u" [] c = "Y" -> "y"
      [] OTHER -> c

RECURSIVE ToLowerCase(_)
\* String.prototype.toLowerCase (over the letters the payloads use)
ToLowerCase(s) ==
    IF Len(s) = 0 THEN ""
    ELSE LowerChar(SubSeq(s, 1, 1)) \o ToLowerCase(SubSeq(s, 2, Len(s)))

Max(a, b) == IF a > b THEN a ELSE b
Min(a, b) == IF a < b THEN a ELSE b

-----------------------------------------------------------------------------
(* simplifyWeather: raw provider payload -> compact record.  A raw payload  *)
(* is [main_temp, weather0_description, wind_speed, clouds_all,            *)
(* weather0_icon], each nullable: the value of the optional chain          *)
(* raw.main?.temp, raw.weather?.[0]?.description, ...                      *)

\* x || d for a nullable number
OrNum(o, d) == IF IsNull(o) \/ Val(o) = 0 THEN d ELSE Val(o)
\* x || d for a nullable string
OrStr(o, d) == IF IsNull(o) \/ Val(o) = "" THEN d ELSE Val(o)

simplifyWeather(raw) ==
    [ temp        |-> OrNum(raw.main_temp, 0),
      description |-> OrStr(raw.weather0_description, "unknown"),
      wind        |-> OrNum(raw.wind_speed, 0),
      clouds      |-> raw.clouds_all,
      icon        |-> OrStr(raw.weather0_icon, "") ]

-----------------------------------------------------------------------------
(* getSuitability *)

\* Label with the thresholds taken as inclusive
LabelInclusive(score) ==
    IF score >= 80 THEN "Great"
    ELSE IF score >= 60 THEN "Good"
    ELSE IF score >= 40 THEN "Okay"
    ELSE "Poor"

Label(score) ==
    IF score > 80 THEN "Great"
    ELSE IF score > 60 THEN "Good"
    ELSE IF score > 40 THEN "Okay"
    ELSE "Poor"

\* Clamp without the lower bound
ClampAbove(score) == Min(100, score)

Clamp(score) == Max(0, Min(100, score))

\* RawScore with the three description tests chained by else
RawScoreFirstMatch(w, type) ==
    LET desc == ToLowerCase(w.description)
        s3 == IF Includes(desc, "clear") THEN 80
              ELSE IF Includes(desc, "cloud") THEN 60
              ELSE IF Includes(desc, "rain") THEN 20
              ELSE 50
        s4 == s3 - (IF w.wind > 10 THEN 10 ELSE 0)
        s5 == s4 - (IF w.temp < 283 \/ w.temp > 303 THEN 10 ELSE 0)
    IN  IF type = "wedding" THEN s5 + 10
        ELSE IF type = "sports" THEN s5 - 5
        ELSE s5

RawScore(w, type) ==
    LET desc == ToLowerCase(w.description)
        s1 == 50 + (IF Includes(desc, "clear") THEN 30 ELSE 0)
        s2 == s1 + (IF Includes(desc, "cloud") THEN 10 ELSE 0)
        s3 == s2 - (IF Includes(desc, "rain") THEN 30 ELSE 0)
        s4 == s3 - (IF w.wind > 10 THEN 10 ELSE 0)
        s5 == s4 - (IF w.temp < 283 \/ w.temp > 303 THEN 10 ELSE 0)
    IN  IF type = "wedding" THEN s5 + 10
        ELSE IF type = "sports" THEN s5 - 5
        ELSE s5

\* weather is nullable: Null, or Some(simplified record)
getSuitability(weather, type) ==
    IF IsNull(weather) THEN [score |-> 0, suitability |-> "Unknown"]
    ELSE LET score == Clamp(RawScore(Val(weather), type))
         IN  [score |-> score, suitability |-> Label(score)]

-----------------------------------------------------------------------------
(* Dates: new Date(string), getDate/setDate in local time, toISOString.     *)
(* A time value is a number of hours since 1970-01-01T00:00Z, nullable:     *)
(* Null is NaN (Invalid Date).                                              *)

Digit(c) ==
    CASE c = "0" -> 0 [] c = "1" -> 1 [] c = "2" -> 2 [] c = "3" -> 3
      [] c = "4" -> 4 [] c = "5" -> 5 [] c = "6" -> 6 [] c = "7" -> 7
      [] c = "8" -> 8 [] c = "9" -> 9 [] OTHER -> -1

IsDigits(s) == \A i \in 1..Len(s) : Digit(SubSeq(s, i, i)) >= 0

RECURSIVE ParseDigits(_)
ParseDigits(s) ==
    IF Len(s) = 0 THEN 0
    ELSE 10 * ParseDigits(SubSeq(s, 1, Len(s) - 1)) + Digit(SubSeq(s, Len(s), Len(s)))

\* Day number of a civil date (days since 1970-01-01, proleptic Gregorian)
DaysFromCivil(year, month, day) ==
    LET y   == IF month <= 2 THEN year - 1 ELSE year
        era == y \div 400
        yoe == y - era * 400
        mp  == IF month > 2 THEN month - 3 ELSE month + 9
        doy == (153 * mp + 2) \div 5 + day - 1
        doe == yoe * 365 + yoe \div 4 - yoe \div 100 + doy
    IN  era * 146097 + doe - 719468

\* Civil date <<year, month, day>> of a day number
CivilFromDays(days) ==
    LET z   == days + 719468
        era == z \div 146097
        doe == z - era * 146097
        yoe == (doe - doe \div 1460 + doe \div 36524 - doe \div 146096) \div 365
        doy == doe - (365 * yoe + yoe \div 4 - yoe \div 100)
        mp  == (5 * doy + 2) \div 153
        d   == doy - (153 * mp + 2) \div 5 + 1
        m   == IF mp < 10 THEN mp + 3 ELSE mp - 9
        y   == yoe + era * 400
    IN  <<IF m <= 2 THEN y + 1 ELSE y, m, d>>

\* new Date(s): a date-only ISO string is midnight UTC; anything the model
\* feeds it that is not of that shape is an Invalid Date
NewDate(s) ==
    IF /\ Len(s) = 10
       /\ SubSeq(s, 5, 5) = "-" /\ SubSeq(s, 8, 8) = "-"
       /\ IsDigits(SubSeq(s, 1, 4)) /\ IsDigits(SubSeq(s, 6, 7)) /\ IsDigits(SubSeq(s, 9, 10))
       /\ ParseDigits(SubSeq(s, 6, 7)) \in 1..12
       /\ ParseDigits(SubSeq(s, 9, 10)) \in 1..31
    THEN Some(24 * DaysFromCivil(ParseDigits(SubSeq(s, 1, 4)),
                                 ParseDigits(SubSeq(s, 6, 7)),
                                 ParseDigits(SubSeq(s, 9, 10))))
    ELSE Null

\* Daylight saving time of America/New_York in 2024, in UTC hours and in
\* local wall-clock hours
DstStartUtc == 24 * DaysFromCivil(2024, 3, 10) + 7
DstEndUtc == 24 * DaysFromCivil(2024, 11, 3) + 6
DstStartLocal == 24 * DaysFromCivil(2024, 3, 10) + 3
DstEndLocal == 24 * DaysFromCivil(2024, 11, 3) + 1

\* Offset of local time from UTC, in hours, at UTC time t
OffsetAtUtc(zone, t) ==
    IF zone = "America/New_York"
    THEN IF t >= DstStartUtc /\ t < DstEndUtc THEN -4 ELSE -5
    ELSE 0

\* Offset of local time from UTC, in hours, at local wall-clock time t
OffsetAtLocal(zone, t) ==
    IF zone = "America/New_York"
    THEN IF t >= DstStartLocal /\ t < DstEndLocal THEN -4 ELSE -5
    ELSE 0

LocalTime(zone, t) == t + OffsetAtUtc(zone, t)
UTC(zone, t) == t - OffsetAtLocal(zone, t)

\* newDate.setDate(newDate.getDate() + offset) on time value t
SetDatePlus(zone, t, offset) ==
    LET loc   == LocalTime(zone, t)
        civil == CivilFromDays(loc \div 24)
        date  == civil[3] + offset
        day   == DaysFromCivil(civil[1], civil[2], 1) + date - 1
    IN  UTC(zone, 24 * day + (loc % 24))

Pad2(n) == IF n < 10 THEN "0" \o ToString(n) ELSE ToString(n)

Pad4(n) ==
    IF n < 10 THEN "000" \o ToString(n)
    ELSE IF n < 100 THEN "00" \o ToString(n)
    ELSE IF n < 1000 THEN "0" \o ToString(n)
    ELSE ToString(n)

\* d.toISOString().split("T")[0] on a valid time value t
IsoDate(t) ==
    LET civil == CivilFromDays(t \div 24)
    IN  Pad4(civil[1]) \o "-" \o Pad2(civil[2]) \o "-" \o Pad2(civil[3])

\* the dateStr of the loop body for one offset; Null when toISOString throws
\* RangeError (Invalid Date)
OffsetDateStr(zone, dateString, offset) ==
    LET baseDate == NewDate(dateString)
    IN  IF IsNull(baseDate) THEN Null
        ELSE Some(IsoDate(SetDatePlus(zone, Val(baseDate), offset)))

-----------------------------------------------------------------------------
(* Requests the clients send, and answers the provider gives *)

Slots == 1..MaxInFlight

Cities == {"Pune", "Oslo"}
Dates == {"2024-03-10", "soon"}
Types == {"wedding", "sports", "party"}
TimeZones == {"UTC", "America/New_York"}

\* the :id segment of a path
IdParams == {"1", "2", "3x", "x"}

\* req.body of POST /events
CreateBodies == [name : {"Gala"}, city : {"Pune"}, date : Dates, type : {"wedding"}]

\* req.body of PUT /events/:id
UpdateBodies ==
    { <<>>,
      [id |-> 2],
      [score |-> 95],
      [weather |-> Null],
      [city |-> "Oslo"],
      [date |-> "2024-03-09", type |-> "sports"],
      [name |-> "Fest", note |-> "moved"] }

\* JSON payloads of the provider (see simplifyWeather for the encoding)
PayloadClear ==
    [ main_temp            |-> Some(295),
      weather0_description |-> Some("Clear Sky"),
      wind_speed           |-> Some(3),
      clouds_all           |-> Some(0),
      weather0_icon        |-> Some("01d") ]

PayloadRain ==
    [ main_temp            |-> Null,
      weather0_description |-> Some("light rain"),
      wind_speed           |-> Some(12),
      clouds_all           |-> Null,
      weather0_icon        |-> Null ]

Payloads == {PayloadClear, PayloadRain}

\* What the body of getWeather after the cache miss ends with: it throws
\* (fetch rejected, !res.ok, res.json() rejected) or returns the payload
FetchResults ==
    {[threw |-> TRUE, value |-> Null]}
        \cup {[threw |-> FALSE, value |-> Some(p)] : p \in Payloads}

-----------------------------------------------------------------------------
(* Helpers of the handlers *)

\* parseInt(s): the number its leading digits spell, Null (NaN) without any
RECURSIVE DigitPrefix(_)
DigitPrefix(s) ==
    IF Len(s) = 0 \/ Digit(SubSeq(s, 1, 1)) < 0 THEN ""
    ELSE SubSeq(s, 1, 1) \o DigitPrefix(SubSeq(s, 2, Len(s)))

parseInt(s) ==
    IF DigitPrefix(s) = "" THEN Null ELSE Some(ParseDigits(DigitPrefix(s)))

\* Find that takes the id for the position in db.events
FindByPosition(events, id) ==
    IF IsNull(id) \/ Val(id) \notin 1..Len(events) THEN 0 ELSE Val(id)

\* db.events.find(e => e.id === id): the index of the first match, 0 if none
Find(events, id) ==
    IF IsNull(id) \/ ~\E i \in 1..Len(events) : events[i].id = Val(id) THEN 0
    ELSE CHOOSE i \in 1..Len(events) :
            /\ events[i].id = Val(id)
            /\ \A j \in 1..(i - 1) : events[j].id # Val(id)

formatEvent(event) ==
    [ id          |-> event.id,
      name        |-> event.name,
      city        |-> event.city,
      date        |-> event.date,
      type        |-> event.type,
      score       |-> event.score,
      suitability |-> event.suitability,
      weather     |-> event.weather ]

\* ObjectAssign that drops the stored weather when the source moves the event
ObjectAssignInvalidates(target, source) ==
    [ f \in (DOMAIN target) \cup (DOMAIN source) |->
        IF f \in DOMAIN source THEN source[f]
        ELSE IF f = "weather" /\ "city" \in DOMAIN source THEN Null
        ELSE target[f] ]

\* Object.assign(target, source)
ObjectAssign(target, source) ==
    [ f \in (DOMAIN target) \cup (DOMAIN source) |->
        IF f \in DOMAIN source THEN source[f] ELSE target[f] ]

\* the key getWeather builds
CacheKey(city, date) == city \o "-" \o date

\* CacheAfter that also remembers a failed fetch, as an empty payload
CacheAfterRemembersFailure(cache, key, result) ==
    [ k \in (DOMAIN cache) \cup {key} |->
        IF k # key THEN cache[k]
        ELSE IF result.threw
        THEN [ main_temp |-> Null, weather0_description |-> Null, wind_speed |-> Null,
               clouds_all |-> Null, weather0_icon |-> Null ]
        ELSE Val(result.value) ]

\* weatherCache.set(key, data) on a successful fetch, nothing on a throw
CacheAfter(cache, key, result) ==
    IF result.threw THEN cache
    ELSE [ k \in (DOMAIN cache) \cup {key} |->
             IF k = key THEN Val(result.value) ELSE cache[k] ]

\* safeGetWeather: the payload, or null when getWeather threw
safeGetWeather(result) == IF result.threw THEN Null ELSE result.value

\* getWeather on a cache hit
CacheHit(cache, key) == [threw |-> FALSE, value |-> Some(cache[key])]

\* Simplified that fills in the defaults where there is no payload
SimplifiedOrDefaults(rawWeather) ==
    IF IsNull(rawWeather)
    THEN Some(simplifyWeather([ main_temp |-> Null, weather0_description |-> Null,
                                wind_speed |-> Null, clouds_all |-> Null,
                                weather0_icon |-> Null ]))
    ELSE Some(simplifyWeather(Val(rawWeather)))

\* rawWeather ? simplifyWeather(rawWeather) : null
Simplified(rawWeather) ==
    IF IsNull(rawWeather) THEN Null ELSE Some(simplifyWeather(Val(rawWeather)))

\* NewEvent that numbers the event after the last stored id
NewEventAfterLast(events, body, rawWeather) ==
    LET simplifiedWeather == Simplified(rawWeather)
        s == getSuitability(simplifiedWeather, body.type)
    IN  [ id          |-> IF Len(events) = 0 THEN 1 ELSE events[Len(events)].id + 1,
          name        |-> body.name,
          city        |-> body.city,
          date        |-> body.date,
          type        |-> body.type,
          score       |-> s.score,
          suitability |-> s.suitability,
          weather     |-> simplifiedWeather ]

\* the event POST /events builds from the store it read and the weather
NewEvent(events, body, rawWeather) ==
    LET simplifiedWeather == Simplified(rawWeather)
        s == getSuitability(simplifiedWeather, body.type)
    IN  [ id          |-> Len(events) + 1,
          name        |-> body.name,
          city        |-> body.city,
          date        |-> body.date,
          type        |-> body.type,
          score       |-> s.score,
          suitability |-> s.suitability,
          weather     |-> simplifiedWeather ]

\* Rechecked without the assignment event.weather = simplified
RecheckedKeepsWeather(event, rawWeather) ==
    LET simplified == simplifyWeather(Val(rawWeather))
        s == getSuitability(Some(simplified), event.type)
    IN  ObjectAssign(event, [score |-> s.score, suitability |-> s.suitability])

\* the event weather-check rewrites from a non-null payload
Rechecked(event, rawWeather) ==
    LET simplified == simplifyWeather(Val(rawWeather))
        s == getSuitability(Some(simplified), event.type)
    IN  ObjectAssign(event, [ weather     |-> Some(simplified),
                              score       |-> s.score,
                              suitability |-> s.suitability ])

\* one entry of the alternatives
Suggestion(dateStr, weatherRaw, type) ==
    LET s == getSuitability(Some(simplifyWeather(weatherRaw)), type)
    IN  [date |-> dateStr, score |-> s.score, suitability |-> s.suitability]

\* suggestions.sort((a, b) => b.score - a.score): a stable sort
RECURSIVE SortByScore(_)
InsertByScore(sorted, x) ==
    LET n == Cardinality({i \in 1..Len(sorted) : sorted[i].score >= x.score})
    IN  SubSeq(sorted, 1, n) \o <<x>> \o SubSeq(sorted, n + 1, Len(sorted))

SortByScore(suggestions) ==
    IF Len(suggestions) = 0 THEN <<>>
    ELSE InsertByScore(SortByScore(SubSeq(suggestions, 1, Len(suggestions) - 1)),
                       suggestions[Len(suggestions)])

-----------------------------------------------------------------------------
(* State *)

\* a slot with no handler running
IdleReq ==
    [ pc     |-> "idle",   \* "idle", "fetch": suspended in await fetch(url), or
                           \* "body": received, express.json is reading the body
      op     |-> "",
      param  |-> "",       \* req.params.id
      body   |-> <<>>,     \* req.body
      snap   |-> <<>>,     \* db.events as readDB returned it to this handler
      idx    |-> 0,        \* index in snap of the event found
      key    |-> "",       \* key of the fetch in flight
      k      |-> 0,        \* offset of the alternatives loop
      sugg   |-> <<>>,     \* suggestions pushed so far
      tried  |-> <<>>,     \* history: the fetches the loop has made so far
      ncalls |-> 0,        \* history: provider calls this handler has issued
      arrived |-> <<>> ]   \* history: db.events when the request was received

\* What the latest step sent to its client.  status and body are the
\* response (status 0: none was sent); the other fields are history of the
\* handler that sent it: the index in the store of the event it addressed,
\* the key of its last fetch and how that fetch ended ("cached", "ok",
\* "failed", or "none" without a fetch), the fetches of the alternatives
\* loop, the provider calls it issued, what it was asked (req.params.id and
\* req.body), db.events as it read them, db.events just before the step, and
\* db.events when its request was received.
NoResp ==
    [ slot |-> 0, op |-> "", status |-> 0, body |-> <<>>, list |-> <<>>, idx |-> 0,
      key |-> "", fetch |-> "none", tried |-> <<>>, ncalls |-> 0,
      param |-> "", input |-> <<>>, snap |-> <<>>, before |-> <<>>, arrived |-> <<>> ]

\* what a handler was asked and what it read: req.params.id, req.body, and
\* db.events as readDB returned them
Asked(param, input, snap) == [param |-> param, input |-> input, snap |-> snap]

NoProbe == [pc |-> "none", weather |-> Null, type |-> "", result |-> Null]

Init ==
    /\ db = <<>>
    /\ weatherCache = <<>>
    /\ req = [r \in Slots |-> IdleReq]
    /\ resp = NoResp
    /\ tz \in TimeZones
    /\ nreq = [all |-> 0, alternatives |-> 0]
    /\ first = <<>>
    /\ probe = NoProbe

\* A request arrives on slot r: the lowest free slot, within the budget.  A
\* run admits no request after an alternatives request (its six provider
\* calls are the bulk of the state space), so that one is the last to arrive.
Arrives(r) ==
    /\ req[r].pc = "idle"
    /\ \A q \in 1..(r - 1) : req[q].pc # "idle"
    /\ nreq.all < MaxRequests
    /\ nreq.alternatives = 0
    /\ nreq' = [nreq EXCEPT !.all = @ + 1]

ArrivesAlternatives(r) ==
    /\ req[r].pc = "idle"
    /\ \A q \in 1..(r - 1) : req[q].pc # "idle"
    /\ nreq.all < MaxRequests
    /\ nreq.all <= MaxBeforeAlternatives
    /\ nreq.alternatives = 0
    /\ nreq' = [all |-> nreq.all + 1, alternatives |-> 1]

\* the handler of request op on slot r ends with res.status(status).json(body)
Responds(r, rq, op, status, body, idx, key, fetch) ==
    /\ req' = [req EXCEPT ![r] = IdleReq]
    /\ resp' = [ slot |-> r, op |-> op, status |-> status, body |-> body, list |-> <<>>,
                 idx |-> idx, key |-> key, fetch |-> fetch, tried |-> <<>>,
                 ncalls |-> req[r].ncalls,
                 param |-> rq.param, input |-> rq.input, snap |-> rq.snap, before |-> db,
                 arrived |-> req[r].arrived ]

\* the handler on slot r ends with res.json(list), a JSON array
RespondsList(r, op, list) ==
    /\ req' = [req EXCEPT ![r] = IdleReq]
    /\ resp' = [NoResp EXCEPT !.slot = r, !.op = op, !.status = 200, !.list = list,
                              !.snap = db, !.before = db]

\* the handler on slot r suspends in getWeather's await fetch(url)
Suspends(r, state) ==
    /\ req' = [req EXCEPT ![r] = [state EXCEPT !.pc = "fetch", !.ncalls = req[r].ncalls + 1]]
    /\ resp' = NoResp

\* how a provider call ended
Ended(result) == IF result.threw THEN "failed" ELSE "ok"

\* the provider call of slot r ends with result: getWeather lines 74-80
Fetched(r, result) ==
    /\ weatherCache' = CacheAfter(weatherCache, req[r].key, result)
    /\ first' = IF result.threw \/ req[r].key \in DOMAIN first THEN first
                ELSE CacheAfter(first, req[r].key, result)

-----------------------------------------------------------------------------
(* POST /events *)

\* CreateFinish that reads the store again after the await
CreateFinishRereads(r, events, body, rawWeather, key, fetch) ==
    \E newEvent \in {NewEvent(db, body, rawWeather)} :
        /\ db' = Append(db, newEvent)
        /\ Responds(r, Asked("", body, events), "create", 200, formatEvent(newEvent),
                    Len(db) + 1, key, fetch)

\* lines 106-122, once safeGetWeather has returned rawWeather
CreateFinish(r, events, body, rawWeather, key, fetch) ==
    \E newEvent \in {NewEvent(events, body, rawWeather)} :
        /\ db' = Append(events, newEvent)
        /\ Responds(r, Asked("", body, events), "create", 200, formatEvent(newEvent),
                    Len(events) + 1, key, fetch)

PostEvents(r, body) ==
    /\ Arrives(r)
    /\ LET key == CacheKey(body.city, body.date)
       IN  IF key \in DOMAIN weatherCache
           THEN /\ CreateFinish(r, db, body, safeGetWeather(CacheHit(weatherCache, key)),
                                key, "cached")
                /\ UNCHANGED weatherCache
           ELSE /\ Suspends(r, [IdleReq EXCEPT !.op = "create", !.body = body,
                                               !.snap = db, !.key = key])
                /\ UNCHANGED <<db, weatherCache>>
    /\ UNCHANGED <<tz, first, probe>>

PostEventsResumes(r, result) ==
    /\ req[r].pc = "fetch" /\ req[r].op = "create"
    /\ Fetched(r, result)
    /\ CreateFinish(r, req[r].snap, req[r].body, safeGetWeather(result),
                    req[r].key, Ended(result))
    /\ UNCHANGED <<tz, nreq, probe>>

-----------------------------------------------------------------------------
(* GET /events *)

GetEvents(r) ==
    /\ Arrives(r)
    /\ RespondsList(r, "list", [i \in 1..Len(db) |-> formatEvent(db[i])])
    /\ UNCHANGED <<db, weatherCache, tz, first, probe>>

-----------------------------------------------------------------------------
(* PUT /events/:id *)

\* lines 133-140: the handler has no await, it runs from readDB to res.json
\* in one piece; events is what readDB returns
PutHandler(r, param, body, events) ==
    \E idx \in {Find(events, parseInt(param))} :
        IF idx = 0
        THEN /\ Responds(r, Asked(param, body, events), "update", 404,
                         [error |-> "Event not found"], 0, "", "none")
             /\ UNCHANGED db
        ELSE \E event \in {ObjectAssign(events[idx], body)} :
                 /\ db' = [events EXCEPT ![idx] = event]
                 /\ Responds(r, Asked(param, body, events), "update", 200,
                             formatEvent(event), idx, "", "none")

\* the request arrives with its body and is handled at once
PutEvent(r, param, body) ==
    /\ Arrives(r)
    /\ PutHandler(r, param, body, db)
    /\ UNCHANGED <<weatherCache, tz, first, probe>>

\* The PUT request is received; express.json (line 13) reads its body from
\* the socket before the route handler is called, and other requests are
\* served meanwhile.
PutReceived(r, param, body) ==
    /\ Arrives(r)
    /\ req' = [req EXCEPT ![r] = [IdleReq EXCEPT !.pc = "body", !.op = "update",
                                                 !.param = param, !.body = body,
                                                 !.arrived = db]]
    /\ resp' = NoResp
    /\ UNCHANGED <<db, weatherCache, tz, first, probe>>

\* PutRuns whose handler works on the store as it was when the request came
PutRunsOnArrivalStore(r) ==
    /\ req[r].pc = "body" /\ req[r].op = "update"
    /\ PutHandler(r, req[r].param, req[r].body, req[r].arrived)
    /\ UNCHANGED <<weatherCache, tz, first, probe, nreq>>

\* the body is parsed and the handler of lines 132-141 runs
PutRuns(r) ==
    /\ req[r].pc = "body" /\ req[r].op = "update"
    /\ PutHandler(r, req[r].param, req[r].body, db)
    /\ UNCHANGED <<weatherCache, tz, first, probe, nreq>>

-----------------------------------------------------------------------------
(* GET /weather/:city/:date *)

WeatherFinish(r, weather, key, fetch) ==
    IF IsNull(weather)
    THEN Responds(r, Asked("", <<>>, <<>>), "weather", 500,
                  [error |-> "Weather API unavailable or invalid location"], 0, key, fetch)
    ELSE Responds(r, Asked("", <<>>, <<>>), "weather", 200, Val(weather), 0, key, fetch)

GetWeather(r, city, date) ==
    /\ Arrives(r)
    /\ LET key == CacheKey(city, date)
       IN  IF key \in DOMAIN weatherCache
           THEN WeatherFinish(r, safeGetWeather(CacheHit(weatherCache, key)), key, "cached")
           ELSE Suspends(r, [IdleReq EXCEPT !.op = "weather", !.key = key])
    /\ UNCHANGED <<db, weatherCache, tz, first, probe>>

GetWeatherResumes(r, result) ==
    /\ req[r].pc = "fetch" /\ req[r].op = "weather"
    /\ Fetched(r, result)
    /\ WeatherFinish(r, safeGetWeather(result), req[r].key, Ended(result))
    /\ UNCHANGED <<db, tz, nreq, probe>>

-----------------------------------------------------------------------------
(* POST /events/:id/weather-check *)

\* CheckFinish that degrades the event on a failed fetch, as creation does
CheckFinishDegrades(r, param, events, idx, rawWeather, key, fetch) ==
    IF IsNull(rawWeather)
    THEN /\ db' = [events EXCEPT ![idx] =
                     ObjectAssign(events[idx], [ weather |-> Null, score |-> 0,
                                                 suitability |-> "Unknown" ])]
         /\ Responds(r, Asked(param, <<>>, events), "check", 500,
                     [error |-> "Weather check failed"], idx, key, fetch)
    ELSE \E event \in {ObjectAssign(events[idx],
                           [ weather |-> Some(simplifyWeather(Val(rawWeather))),
                             score |-> getSuitability(Some(simplifyWeather(Val(rawWeather))),
                                                      events[idx].type).score,
                             suitability |-> getSuitability(Some(simplifyWeather(Val(rawWeather))),
                                                            events[idx].type).suitability ])} :
             /\ db' = [events EXCEPT ![idx] = event]
             /\ Responds(r, Asked(param, <<>>, events), "check", 200, formatEvent(event),
                         idx, key, fetch)

\* lines 159-168, once safeGetWeather has returned rawWeather
CheckFinish(r, param, events, idx, rawWeather, key, fetch) ==
    IF IsNull(rawWeather)
    THEN /\ Responds(r, Asked(param, <<>>, events), "check", 500,
                     [error |-> "Weather check failed"], idx, key, fetch)
         /\ UNCHANGED db
    ELSE \E event \in {Rechecked(events[idx], rawWeather)} :
             /\ db' = [events EXCEPT ![idx] = event]
             /\ Responds(r, Asked(param, <<>>, events), "check", 200, formatEvent(event),
                         idx, key, fetch)

WeatherCheck(r, param) ==
    /\ Arrives(r)
    /\ \E idx \in {Find(db, parseInt(param))} :
           IF idx = 0
           THEN /\ Responds(r, Asked(param, <<>>, db), "check", 404,
                            [error |-> "Event not found"], 0, "", "none")
                /\ UNCHANGED <<db, weatherCache>>
           ELSE LET key == CacheKey(db[idx].city, db[idx].date)
                IN  IF key \in DOMAIN weatherCache
                    THEN /\ CheckFinish(r, param, db, idx,
                                        safeGetWeather(CacheHit(weatherCache, key)),
                                        key, "cached")
                         /\ UNCHANGED weatherCache
                    ELSE /\ Suspends(r, [IdleReq EXCEPT !.op = "check", !.param = param,
                                                        !.snap = db,
                                                        !.idx = idx, !.key = key])
                         /\ UNCHANGED <<db, weatherCache>>
    /\ UNCHANGED <<tz, first, probe>>

WeatherCheckResumes(r, result) ==
    /\ req[r].pc = "fetch" /\ req[r].op = "check"
    /\ Fetched(r, result)
    /\ CheckFinish(r, req[r].param, req[r].snap, req[r].idx, safeGetWeather(result),
                   req[r].key, Ended(result))
    /\ UNCHANGED <<tz, nreq, probe>>

-----------------------------------------------------------------------------
(* GET /events/:id/suitability *)

GetSuitability(r, param) ==
    /\ Arrives(r)
    /\ \E idx \in {Find(db, parseInt(param))} :
           IF idx = 0
           THEN Responds(r, Asked(param, <<>>, db), "suitability", 404,
                         [error |-> "Event not found"], 0, "", "none")
           ELSE Responds(r, Asked(param, <<>>, db), "suitability", 200,
                    [score |-> db[idx].score, suitability |-> db[idx].suitability],
                    idx, "", "none")
    /\ UNCHANGED <<db, weatherCache, tz, first, probe>>

-----------------------------------------------------------------------------
(* GET /events/:id/alternatives *)

\* The for loop of lines 191-203 from offset k on, with the cache as it is:
\* it runs through the offsets whose key is cached and stops where the
\* handler suspends in a provider call ("fetch"), where toISOString throws
\* ("throw"), or after offset 3 ("respond").
RECURSIVE AlternativesLoop(_, _, _, _, _, _)
AlternativesLoop(zone, event, cache, k, sugg, tried) ==
    IF k > 3 THEN [pc |-> "respond", k |-> k, sugg |-> sugg, tried |-> tried, key |-> ""]
    ELSE IF k = 0 THEN AlternativesLoop(zone, event, cache, k + 1, sugg, tried)
    ELSE LET dateStr == OffsetDateStr(zone, event.date, k)
         IN  IF IsNull(dateStr)
             THEN [pc |-> "throw", k |-> k, sugg |-> sugg, tried |-> tried, key |-> ""]
             ELSE LET key == CacheKey(event.city, Val(dateStr))
                  IN  IF key \in DOMAIN cache
                      THEN AlternativesLoop(zone, event, cache, k + 1,
                               Append(sugg, Suggestion(Val(dateStr), cache[key], event.type)),
                               Append(tried, [offset |-> k, date |-> Val(dateStr),
                                              fetch |-> "cached"]))
                      ELSE [pc |-> "fetch", k |-> k, sugg |-> sugg, tried |-> tried, key |-> key]

\* the body of the 404 of line 206
NoAlternatives ==
    [message |-> "No suitable alternatives found due to weather data unavailability."]

\* the response of lines 205-209; none when the handler threw
AlternativesResponse(r, param, events, idx, at, ncalls) ==
    [ slot   |-> r,
      op     |-> "alternatives",
      status |-> IF at.pc = "throw" THEN 0 ELSE IF Len(at.sugg) = 0 THEN 404 ELSE 200,
      body   |-> IF at.pc # "throw" /\ Len(at.sugg) = 0
                 THEN NoAlternatives
                 ELSE <<>>,
      list   |-> IF at.pc # "throw" /\ Len(at.sugg) > 0 THEN SortByScore(at.sugg) ELSE <<>>,
      idx    |-> idx,
      key    |-> "",
      fetch  |-> "none",
      tried  |-> at.tried,
      ncalls |-> ncalls,
      param  |-> param,
      input  |-> <<>>,
      snap   |-> events,
      before |-> db ]

\* where the loop got to: the handler suspends, or it ends
AlternativesStep(r, param, events, idx, at) ==
    IF at.pc = "fetch"
    THEN Suspends(r, [IdleReq EXCEPT !.op = "alternatives", !.param = param,
                                     !.snap = events, !.idx = idx,
                                     !.key = at.key, !.k = at.k, !.sugg = at.sugg,
                                     !.tried = at.tried])
    ELSE /\ req' = [req EXCEPT ![r] = IdleReq]
         /\ resp' = AlternativesResponse(r, param, events, idx, at, req[r].ncalls)

GetAlternatives(r, param) ==
    /\ ArrivesAlternatives(r)
    /\ \E idx \in {Find(db, parseInt(param))} :
           IF idx = 0
           THEN Responds(r, Asked(param, <<>>, db), "alternatives", 404,
                         [error |-> "Event not found"], 0, "", "none")
           ELSE \E at \in {AlternativesLoop(tz, db[idx], weatherCache, -3, <<>>, <<>>)} :
                    AlternativesStep(r, param, db, idx, at)
    /\ UNCHANGED <<db, weatherCache, tz, first, probe>>

GetAlternativesResumes(r, result) ==
    /\ req[r].pc = "fetch" /\ req[r].op = "alternatives"
    /\ Fetched(r, result)
    /\ \E cache \in {CacheAfter(weatherCache, req[r].key, result)},
          event \in {req[r].snap[req[r].idx]},
          weatherRaw \in {safeGetWeather(result)} :
         \E dateStr \in {Val(OffsetDateStr(tz, event.date, req[r].k))} :
           \E sugg \in {IF IsNull(weatherRaw) THEN req[r].sugg
                        ELSE Append(req[r].sugg,
                                 Suggestion(dateStr, Val(weatherRaw), event.type))},
              tried \in {Append(req[r].tried,
                            [offset |-> req[r].k, date |-> dateStr, fetch |-> Ended(result)])} :
             \E at \in {AlternativesLoop(tz, event, cache, req[r].k + 1, sugg, tried)} :
               AlternativesStep(r, req[r].param, req[r].snap, req[r].idx, at)
    /\ UNCHANGED <<db, tz, nreq, probe>>

-----------------------------------------------------------------------------
(* A direct call of the scorer *)

ProbeDescriptions ==
    { "Clear Sky", "clear and windy", "overcast clouds", "light rain",
      "light rain and clouds", "clear, then rain", "mist", "unknown" }
ProbeWinds == {0, 10, 11, 15}
ProbeTemps == {0, 282, 283, 290, 303, 304}

ProbeWeathers ==
    {Null} \cup
    { Some([temp |-> t, description |-> d, wind |-> w, clouds |-> Null, icon |-> ""]) :
        t \in ProbeTemps, d \in ProbeDescriptions, w \in ProbeWinds }

ProbeInit ==
    /\ db = <<>>
    /\ weatherCache = <<>>
    /\ req = [r \in Slots |-> IdleReq]
    /\ resp = NoResp
    /\ tz = "UTC"
    /\ nreq = [all |-> 0, alternatives |-> 0]
    /\ first = <<>>
    /\ probe \in [pc : {"input"}, weather : ProbeWeathers, type : Types, result : {Null}]

Score ==
    /\ probe.pc = "input"
    /\ probe' = [probe EXCEPT !.pc = "scored",
                              !.result = Some(getSuitability(probe.weather, probe.type))]
    /\ UNCHANGED <<db, weatherCache, req, resp, tz, nreq, first>>

-----------------------------------------------------------------------------
(* Specifications *)

\* every endpoint but the alternatives
CoreNext ==
    \E r \in Slots :
        \/ \E body \in CreateBodies : PostEvents(r, body)
        \/ \E result \in FetchResults : PostEventsResumes(r, result)
        \/ GetEvents(r)
        \/ \E param \in IdParams, body \in UpdateBodies : PutEvent(r, param, body)
        \/ \E city \in Cities, date \in Dates : GetWeather(r, city, date)
        \/ \E result \in FetchResults : GetWeatherResumes(r, result)
        \/ \E param \in IdParams : WeatherCheck(r, param)
        \/ \E result \in FetchResults : WeatherCheckResumes(r, result)
        \/ \E param \in IdParams : GetSuitability(r, param)

AlternativesNext ==
    \E r \in Slots :
        \/ \E param \in IdParams : GetAlternatives(r, param)
        \/ \E result \in FetchResults : GetAlternativesResumes(r, result)

Next == CoreNext \/ AlternativesNext

\* the whole service, with requests overlapping in time
Spec == Init /\ [][Next]_vars

\* tz is read by the alternatives endpoint alone
CoreInit == Init /\ tz = "UTC"

\* the service without the alternatives endpoint, requests overlapping
CoreSpec == CoreInit /\ [][CoreNext]_vars

NoneInFlight == \A r \in Slots : req[r].pc = "idle"

\* the same without overlap: a request arrives when none is in flight
SeqNext ==
    \E r \in Slots :
        \/ \E body \in CreateBodies : NoneInFlight /\ PostEvents(r, body)
        \/ \E result \in FetchResults : PostEventsResumes(r, result)
        \/ NoneInFlight /\ GetEvents(r)
        \/ \E param \in IdParams, body \in UpdateBodies : NoneInFlight /\ PutEvent(r, param, body)
        \/ \E city \in Cities, date \in Dates : NoneInFlight /\ GetWeather(r, city, date)
        \/ \E result \in FetchResults : GetWeatherResumes(r, result)
        \/ \E param \in IdParams : NoneInFlight /\ WeatherCheck(r, param)
        \/ \E result \in FetchResults : WeatherCheckResumes(r, result)
        \/ \E param \in IdParams : NoneInFlight /\ GetSuitability(r, param)

SeqSpec == CoreInit /\ [][SeqNext]_vars

\* req.params.id and req.body of the updates that overlap
OverlapParams == {"1", "2"}
OverlapBodies == {[id |-> 2], [city |-> "Oslo"], [name |-> "Fest", note |-> "moved"]}

\* creates and updates, where an update is received some time before its
\* handler runs, so that updates overlap each other and the creates
OverlapNext ==
    \E r \in Slots :
        \/ \E body \in CreateBodies : PostEvents(r, body)
        \/ \E result \in FetchResults : PostEventsResumes(r, result)
        \/ \E param \in OverlapParams, body \in OverlapBodies : PutReceived(r, param, body)
        \/ PutRuns(r)

OverlapSpec == CoreInit /\ [][OverlapNext]_vars

\* direct calls of getSuitability
ProbeSpec == ProbeInit /\ [][Score]_vars

-----------------------------------------------------------------------------
(* Claims C1 - C10 *)

\* The events of the store are told apart by their position in db.events:
\* no handler removes or reorders entries of the sequence it read.

\* C1: after any sequence of create, update and weather-check requests no
\* two events in the store have the same id, and the id of an event never
\* changes once creation has assigned it.
C1_IdsUniqueAndStable ==
    [][ /\ \A i, j \in 1..Len(db') : i # j => db'[i].id # db'[j].id
        /\ \A i \in 1..Len(db) : i <= Len(db') => db'[i].id = db[i].id ]_vars

\* score and suitability as one call of the scorer returns them
Paired(score, suitability) ==
    \/ score = 0 /\ suitability = "Unknown"
    \/ /\ score \in 0..100
       /\ suitability = (IF score > 80 THEN "Great" ELSE IF score > 60 THEN "Good"
                         ELSE IF score > 40 THEN "Okay" ELSE "Poor")

\* C2: every stored event's score and suitability were set together by one
\* scorer call on one weather snapshot: the stored suitability is the label
\* of the stored score, and a step that changes one of the two sets both
\* from the weather it stores.
C2_ScoreAndSuitabilityTogether ==
    [][ \A i \in 1..Len(db') :
          /\ Paired(db'[i].score, db'[i].suitability)
          /\ ( /\ i <= Len(db)
               /\ <<db'[i].score, db'[i].suitability>> # <<db[i].score, db[i].suitability>> )
             => [score |-> db'[i].score, suitability |-> db'[i].suitability]
                   = getSuitability(db'[i].weather, db'[i].type) ]_vars

\* the latest step ended an enrichment attempt: the fetch of a creation or
\* of a weather-check on a stored event
Enriched ==
    /\ resp.op \in {"create", "check"}
    /\ resp.fetch # "none"
    /\ resp.idx \in 1..Len(db)

\* C3 as claimed: a stored event's weather is null if and only if the most
\* recent enrichment attempt for it failed.
C3_NullIffLastAttemptFailed ==
    Enriched => (IsNull(db[resp.idx].weather) <=> resp.fetch = "failed")

\* C3 as amended: right after a creation the new event's weather is null if
\* and only if the creation's fetch failed; right after a weather-check whose
\* fetch succeeded (from the provider or the cache) the event's weather is
\* not null; a weather-check whose fetch failed writes nothing, so the
\* weather stays as it was, null or not.
C3_WeatherFollowsTheWrite ==
    [][ /\ resp'.op = "create"
           => (IsNull(db'[resp'.idx].weather) <=> resp'.fetch = "failed")
        /\ (resp'.op = "check" /\ resp'.fetch \in {"ok", "cached"})
           => ~IsNull(db'[resp'.idx].weather)
        /\ (resp'.op = "check" /\ resp'.fetch = "failed")
           => db' = db ]_vars

\* a weather-check failed on an event whose weather is not null
C3_Witness ==
    /\ Enriched /\ resp.op = "check" /\ resp.fetch = "failed"
    /\ ~IsNull(db[resp.idx].weather)

\* C4: a create request whose weather fetch fails is answered 200 and
\* persists a new event with weather null, score 0 and suitability "Unknown".
C4_CreateSurvivesFailedFetch ==
    (resp.op = "create" /\ resp.fetch = "failed")
    => /\ resp.status = 200
       /\ resp.ncalls = 1
       /\ resp.idx = Len(db)
       /\ IsNull(db[Len(db)].weather)
       /\ db[Len(db)].score = 0
       /\ db[Len(db)].suitability = "Unknown"
       /\ resp.body = formatEvent(db[Len(db)])

C4_Witness ==
    /\ resp.op = "create" /\ resp.fetch = "failed" /\ resp.status = 200
    /\ Len(db) >= 1

\* C5: a weather-check on an existing event whose weather fetch fails is
\* answered 500 and leaves the stored event and the rest of the store as
\* they were: neither its arrival nor its answer writes the store.
C5_FailedCheckChangesNothing ==
    [][ /\ (resp'.op = "check" /\ resp'.fetch = "failed")
           => (resp'.status = 500 /\ db' = db)
        /\ \A r \in Slots :
             (req[r].pc = "idle" /\ req'[r].pc = "fetch" /\ req'[r].op = "check")
             => db' = db ]_vars

C5_Witness ==
    /\ Enriched /\ resp.op = "check" /\ resp.fetch = "failed" /\ resp.status = 500
    /\ db[resp.idx].score > 0

\* C6: once a fetch for a key has succeeded, every fetch for that key that
\* starts later issues no provider call and returns the payload of that
\* first successful fetch.
C6_LaterFetchReturnsFirstPayload ==
    [][ /\ \A r \in Slots :
             (req[r].pc = "idle" /\ req'[r].pc = "fetch") => req'[r].key \notin DOMAIN first
        /\ (nreq' # nreq /\ resp'.op = "weather" /\ resp'.key \in DOMAIN first)
           => /\ resp'.status = 200
              /\ resp'.ncalls = 0
              /\ resp'.body = first[resp'.key] ]_vars

\* the date offset days after dateString, by the calendar
ExpectedDate(dateString, offset) == IsoDate(Val(NewDate(dateString)) + 24 * offset)

SixOffsets == <<-3, -2, -1, 1, 2, 3>>

\* the entries of a list of tried fetches that did not fail
RECURSIVE Succeeded(_)
Succeeded(tried) ==
    IF Len(tried) = 0 THEN <<>>
    ELSE IF tried[Len(tried)].fetch = "failed" THEN Succeeded(SubSeq(tried, 1, Len(tried) - 1))
    ELSE Append(Succeeded(SubSeq(tried, 1, Len(tried) - 1)), tried[Len(tried)])

\* C7: for an existing event (with an ISO date) the alternatives request
\* tries exactly the offsets -3,-2,-1,+1,+2,+3 days, never the event's own
\* date; it answers 404 with the message if all six fetches fail, and
\* otherwise one entry per offset whose fetch succeeded, by non-increasing
\* score.
C7_AlternativesTriesSixOffsets ==
    ( /\ resp.op = "alternatives"
      /\ resp.idx \in 1..Len(db)
      /\ ~IsNull(NewDate(db[resp.idx].date)) )
    => /\ resp.status \in {200, 404}
       /\ Len(resp.tried) = 6
       /\ \A n \in 1..6 :
            /\ resp.tried[n].offset = SixOffsets[n]
            /\ resp.tried[n].date = ExpectedDate(db[resp.idx].date, SixOffsets[n])
            /\ resp.tried[n].date # db[resp.idx].date
       /\ resp.status = 404 <=> Len(Succeeded(resp.tried)) = 0
       /\ resp.status = 404
          => resp.body = NoAlternatives
       /\ resp.status = 200
          => /\ Len(resp.list) = Len(Succeeded(resp.tried))
             /\ \A t \in 1..Len(Succeeded(resp.tried)) :
                  \E n \in 1..Len(resp.list) : resp.list[n].date = Succeeded(resp.tried)[t].date
             /\ \A n \in 1..(Len(resp.list) - 1) : resp.list[n].score >= resp.list[n + 1].score

Scored == probe.pc = "scored"

\* C8: for every weather input, null or not, and every event type the score
\* lies in [0,100], and the label is "Unknown" if and only if the weather
\* input is null.
C8_ScoreInRangeUnknownIffNull ==
    Scored => /\ Val(probe.result).score \in 0..100
              /\ Val(probe.result).suitability = "Unknown" <=> IsNull(probe.weather)

\* the adjustments sum below 0: light rain, wind, cold, sports
C8_Witness ==
    /\ Scored /\ ~IsNull(probe.weather)
    /\ Val(probe.weather).description = "light rain"
    /\ Val(probe.weather).wind > 10 /\ Val(probe.weather).temp < 283
    /\ probe.type = "sports"
    /\ Val(probe.result).score = 0

\* C9: for a non-null weather input the label follows from the score with
\* exclusive lower bounds: above 80 "Great", above 60 "Good", above 40
\* "Okay", otherwise "Poor"; so 80 is "Good", 60 "Okay" and 40 "Poor".
C9_LabelByExclusiveThresholds ==
    (Scored /\ ~IsNull(probe.weather))
    => LET score == Val(probe.result).score
           label == Val(probe.result).suitability
       IN  /\ score > 80 => label = "Great"
           /\ (score > 60 /\ score <= 80) => label = "Good"
           /\ (score > 40 /\ score <= 60) => label = "Okay"
           /\ score <= 40 => label = "Poor"
           /\ score = 80 => label = "Good"
           /\ score = 60 => label = "Okay"
           /\ score = 40 => label = "Poor"

C9_Witness ==
    /\ Scored /\ ~IsNull(probe.weather)
    /\ Val(probe.result).score = 80 /\ Val(probe.result).suitability = "Good"

\* the sum of the adjustments the claim lists, from 50
AdjustedScore(w, type) ==
    LET has(word) == Includes(ToLowerCase(w.description), word)
    IN  50 + (IF has("clear") THEN 30 ELSE 0)
           + (IF has("cloud") THEN 10 ELSE 0)
           + (IF has("rain") THEN -30 ELSE 0)
           + (IF w.wind > 10 THEN -10 ELSE 0)
           + (IF w.temp < 283 \/ w.temp > 303 THEN -10 ELSE 0)
           + (IF type = "wedding" THEN 10 ELSE 0)
           + (IF type = "sports" THEN -5 ELSE 0)

\* C10: for a non-null weather input the score is 50 plus the adjustments
\* that apply, each on its own, clamped to [0,100]; "clear and windy" at
\* 290 K with wind 15 for "sports" gives 65 and "Good".
C10_ScoreIsClampedSum ==
    (Scored /\ ~IsNull(probe.weather))
    => LET w == Val(probe.weather)
           sum == AdjustedScore(w, probe.type)
       IN  /\ Val(probe.result).score = (IF sum < 0 THEN 0 ELSE IF sum > 100 THEN 100 ELSE sum)
           /\ ( /\ w.description = "clear and windy" /\ w.temp = 290 /\ w.wind = 15
                /\ probe.type = "sports" )
              => Val(probe.result) = [score |-> 65, suitability |-> "Good"]

\* two description words apply at once
C10_Witness ==
    /\ Scored /\ ~IsNull(probe.weather)
    /\ Val(probe.weather).description = "light rain and clouds"
    /\ Val(probe.weather).wind = 0 /\ Val(probe.weather).temp = 290
    /\ probe.type = "wedding"
    /\ Val(probe.result).score = 40

-----------------------------------------------------------------------------
(* Claims C11 - C20 *)

\* C11: an update of an existing event overwrites exactly the fields of the
\* request body and leaves every other field of that event, every other
\* event and the weather cache as they were; it makes no provider call and
\* does not recompute weather, score or suitability, whatever the body
\* changes.
C11_UpdateOverwritesOnlyItsFields ==
    [][ (resp'.op = "update" /\ resp'.status = 200)
        => /\ Len(db') = Len(db)
           /\ \A j \in 1..Len(db) : j # resp'.idx => db'[j] = db[j]
           /\ DOMAIN db'[resp'.idx] = (DOMAIN db[resp'.idx]) \cup (DOMAIN resp'.input)
           /\ \A f \in DOMAIN resp'.input : db'[resp'.idx][f] = resp'.input[f]
           /\ \A f \in (DOMAIN db[resp'.idx]) \ (DOMAIN resp'.input) :
                db'[resp'.idx][f] = db[resp'.idx][f]
           /\ weatherCache' = weatherCache
           /\ resp'.ncalls = 0
           /\ \A r \in Slots : req'[r].pc = "fetch" => req'[r] = req[r] ]_vars

\* an update moved an event that has weather to another city
C11_Witness ==
    /\ resp.op = "update" /\ resp.status = 200
    /\ resp.input = [city |-> "Oslo"]
    /\ resp.before[resp.idx].city = "Pune"
    /\ db[resp.idx].city = "Oslo"
    /\ ~IsNull(db[resp.idx].weather)
    /\ db[resp.idx].score > 0

\* no event of events has the id that param refers to (parseInt of it)
Absent(param, events) ==
    \A i \in 1..Len(events) : Some(events[i].id) # parseInt(param)

ByIdOps == {"update", "check", "suitability", "alternatives"}

\* C12: when the id a request refers to is not in the store, each of update,
\* weather-check, suitability and alternatives answers 404 (not found),
\* issues no provider call and leaves the store and the weather cache
\* unchanged.
C12_AbsentIdIsNotFound ==
    [][ /\ (resp'.op \in ByIdOps /\ Absent(resp'.param, resp'.snap))
           => /\ resp'.status = 404
              /\ resp'.body = [error |-> "Event not found"]
              /\ resp'.ncalls = 0
              /\ db' = db
              /\ weatherCache' = weatherCache
        /\ \A r \in Slots :
             (req[r].pc = "idle" /\ req'[r].pc = "fetch" /\ req'[r].op \in ByIdOps)
             => ~Absent(req'[r].param, db) ]_vars

\* alternatives were asked for an id the non-empty store does not hold
C12_Witness ==
    /\ resp.op = "alternatives" /\ resp.status = 404
    /\ resp.body = [error |-> "Event not found"]
    /\ resp.param = "2"
    /\ Len(db) = 1 /\ db[1].id = 1

\* C13: a create assigns the id (number of events in the store as that
\* request read it) + 1; when requests do not overlap, from an empty store,
\* the store a create read is the store it appends to and the store grows
\* by creates alone, one event at a time, so that successive creates are
\* assigned 1, 2, 3, ... and no id is assigned twice.
C13_CreateAssignsCountPlusOne ==
    [][ /\ resp'.op = "create"
           => /\ resp'.status = 200
              /\ resp'.body.id = Len(resp'.snap) + 1
              /\ resp'.snap = db
              /\ Len(db') = Len(db) + 1
              /\ db'[Len(db')].id = resp'.body.id
              /\ \A i \in 1..Len(db) : db'[i] = db[i]
        /\ Len(db') # Len(db) => resp'.op = "create" ]_vars

\* the third create of a run
C13_Witness ==
    /\ resp.op = "create" /\ resp.body.id = 3
    /\ Len(db) = 3 /\ Len(resp.before) = 2

\* C14: two creates that both read the same store contents before either
\* writes are both answered with the same id, and the event written first
\* is overwritten: every create is answered with (length of the store it
\* read) + 1 and writes back the store it read plus its own event, so the
\* second write puts its event where the first one's was and the store holds
\* one event for the two requests.
C14_OverlappingCreatesCollide ==
    [][ resp'.op = "create"
        => /\ resp'.body.id = Len(resp'.snap) + 1
           /\ Len(db') = Len(resp'.snap) + 1
           /\ \A i \in 1..Len(resp'.snap) : db'[i] = resp'.snap[i]
           /\ formatEvent(db'[Len(db')]) = resp'.body
           /\ Len(db) > Len(resp'.snap)
              => /\ Len(db') <= Len(db)
                 /\ resp'.input.date # db[Len(resp'.snap) + 1].date
                    => db'[Len(resp'.snap) + 1] # db[Len(resp'.snap) + 1] ]_vars

\* Two creates read the empty store; the first wrote its event with id 1;
\* the second has now been answered with id 1 too and the store holds its
\* event alone.
C14_Witness ==
    /\ resp.op = "create" /\ resp.status = 200
    /\ resp.snap = <<>>
    /\ Len(resp.before) = 1 /\ resp.before[1].id = 1
    /\ resp.body.id = 1
    /\ Len(db) = 1
    /\ db[1].date # resp.before[1].date

\* field f of the event a PUT addressed was written by another request
\* between the moment the PUT was received and the moment its handler ran
WrittenMeanwhile(f) ==
    /\ f \in DOMAIN resp.before[resp.idx]
    /\ \/ f \notin DOMAIN resp.arrived[resp.idx]
       \/ resp.arrived[resp.idx][f] # resp.before[resp.idx][f]

\* a PUT has just been answered 200, and while it was in flight another
\* request wrote a field of the same event that this PUT's body does not name
UpdateOverlappedAWrite ==
    /\ resp.op = "update" /\ resp.status = 200
    /\ resp.idx <= Len(resp.arrived)
    /\ \E f \in DOMAIN resp.before[resp.idx] :
           WrittenMeanwhile(f) /\ f \notin DOMAIN resp.input

\* C15 as stated: when two updates overlap in time, the fields written by
\* one of them are lost, the store after the second does not hold the effect
\* of both.
C15_OverlappingUpdatesLoseFields ==
    UpdateOverlappedAWrite
    => \E f \in DOMAIN resp.before[resp.idx] :
           /\ WrittenMeanwhile(f) /\ f \notin DOMAIN resp.input
           /\ \/ f \notin DOMAIN db[resp.idx]
              \/ db[resp.idx][f] # resp.before[resp.idx][f]

\* C15, amended: two updates that overlap in time do not race.  The PUT
\* handler has no await between readDB and writeDB, so it merges its body
\* into the store as the other update left it: after the second update the
\* store holds the fields of both (where both name a field, the later value),
\* and every other event as it was.
C15_OverlappingUpdatesBothKept ==
    UpdateOverlappedAWrite
    => /\ Len(db) = Len(resp.before)
       /\ \A j \in 1..Len(db) : j # resp.idx => db[j] = resp.before[j]
       /\ \A f \in DOMAIN resp.input :
              f \in DOMAIN db[resp.idx] /\ db[resp.idx][f] = resp.input[f]
       /\ \A f \in (DOMAIN resp.before[resp.idx]) \ (DOMAIN resp.input) :
              f \in DOMAIN db[resp.idx] /\ db[resp.idx][f] = resp.before[resp.idx][f]

\* An update of the city was received; before its handler ran, another
\* update added a note to the same event; the event now has both.
C15_Witness ==
    /\ UpdateOverlappedAWrite
    /\ resp.input = [city |-> "Oslo"]
    /\ "note" \notin DOMAIN resp.arrived[resp.idx]
    /\ resp.arrived[resp.idx].city = "Pune"
    /\ "note" \in DOMAIN db[resp.idx]
    /\ db[resp.idx].note = "moved" /\ db[resp.idx].name = "Fest"
    /\ db[resp.idx].city = "Oslo"

\* C16: when two fetches for the same key both miss the cache and both call
\* the provider, the race is benign: the fetch that completes second finds
\* the key already cached by the first, is given the same payload as the
\* first, and leaves the cached value (which every later fetch returns) as
\* the first left it.
C16_CacheRaceIsBenign ==
    [][ (resp'.fetch = "ok" /\ resp'.key \in DOMAIN weatherCache)
        => /\ weatherCache'[resp'.key] = weatherCache[resp'.key]
           /\ resp'.op = "weather" => resp'.body = weatherCache[resp'.key] ]_vars

\* C17: the weather cache only grows by successful fetches.  Its keys are
\* the keys for which some fetch has succeeded; a step adds a key only by a
\* provider call for that key that succeeded; a failed fetch leaves the cache
\* as it was, and since a fetch is answered without a provider call only for
\* a key that is cached, the next fetch for that key calls the provider
\* again; no step removes a key.
C17_CacheGrowsOnlyBySuccess ==
    [][ /\ DOMAIN weatherCache' = DOMAIN first'
        /\ DOMAIN weatherCache \subseteq DOMAIN weatherCache'
        /\ \A key \in (DOMAIN weatherCache') \ (DOMAIN weatherCache) :
               resp'.fetch = "ok" /\ resp'.key = key
        /\ resp'.fetch = "failed" => weatherCache' = weatherCache
        /\ resp'.fetch = "cached" => resp'.key \in DOMAIN weatherCache /\ resp'.ncalls = 0
        /\ \A r \in Slots :
               (req[r].pc = "idle" /\ req'[r].pc = "fetch")
               => req'[r].key \notin DOMAIN weatherCache ]_vars

\* A fetch for one key has just failed while another key is cached: the
\* failed key is not in the cache.
C17_Witness ==
    /\ resp.fetch = "failed"
    /\ resp.key = "Oslo-soon"
    /\ DOMAIN weatherCache = {"Pune-2024-03-10"}
    /\ DOMAIN first = {"Pune-2024-03-10"}

\* C18: a weather-check changes only the weather, score and suitability of
\* its target event; every other event, and every change other requests
\* made to the store while the weather-check was waiting for the provider, is
\* still in the store after the weather-check writes.
C18_CheckKeepsOthersChanges ==
    [][ (resp'.op = "check" /\ resp'.status = 200)
        => /\ Len(db') = Len(db)
           /\ \A j \in 1..Len(db) : j # resp'.idx => db'[j] = db[j]
           /\ DOMAIN db'[resp'.idx] = DOMAIN db[resp'.idx]
           /\ \A f \in (DOMAIN db[resp'.idx]) \ {"weather", "score", "suitability"} :
                  db'[resp'.idx][f] = db[resp'.idx][f] ]_vars

\* C19: once a fetch for an event's current (city, date) has succeeded, a
\* later weather-check of that event issues no provider call (so it does not
\* matter whether the provider is available), is answered 200, and stores the
\* weather of that first successful fetch.
C19_CheckAfterSuccessIsFromFirstFetch ==
    [][ /\ \A r \in Slots :
             (req[r].pc = "idle" /\ req'[r].pc = "fetch" /\ req'[r].op = "check")
             => req'[r].key \notin DOMAIN first
        /\ (nreq' # nreq /\ resp'.op = "check" /\ resp'.status # 404)
           => /\ resp'.key = CacheKey(db[resp'.idx].city, db[resp'.idx].date)
              /\ resp'.key \in DOMAIN first
              /\ resp'.status = 200
              /\ resp'.ncalls = 0
              /\ db'[resp'.idx].weather = Some(simplifyWeather(first[resp'.key]))
              /\ resp'.body.weather = Some(simplifyWeather(first[resp'.key])) ]_vars

\* C20: every request whose provider calls have all completed receives
\* exactly one response.  resp is what the handler that ended in the latest
\* step sent to its client, so a handler that has ended has answered with one
\* of the statuses of the routes.
C20_EveryEndedRequestIsAnswered ==
    resp.op # "" => resp.status \in {200, 404, 500}

=============================================================================
